---- MODULE Spec2Model ----
(***************************************************************************)
(* TiRest: the storage facade (package store), its driver registry, and    *)
(* the durable-queue connector (package kafka) of src/store/store.go.      *)
(*                                                                         *)
(* Byte strings are sequences of numbers 0..255.  A nil interface slot is  *)
(* the handle 0; the handle produced by the k-th Store.Open call is k.     *)
(***************************************************************************)
EXTENDS Integers, Sequences, FiniteSets, TLC

(* ------------------------------ bounds -------------------------------- *)

\* Capacity of the connector's intake channel.  The source sets 1024
\* (store.go:251); the model runs with a smaller capacity so that a full
\* intake is reached.
MaxMessage == 1

\* Store.Open calls considered.
MaxOpenCalls == 2

\* Store.CheckAndPut calls considered.
MaxCalls == 2

\* Store.Close calls considered.
MaxCloseCalls == 1

\* RegisterDB / RegisterConnector calls considered.
MaxRegCalls == 3

\* Connector.Send calls made directly on a connector (connector pipeline).
MaxSends == 2

\* Longest key and longest entry taken through the record codec.
MaxLen == 2

(* ------------------------------ values -------------------------------- *)

DriverNames == {"kafka", "tikv"}

\* Two distinct driver objects may declare the same name.
DriverIds == {1, 2}

ErrNotRegister == "ErrNotRegister"

ErrNotExists == "ErrNotExists"

ErrDatabaseNotExists == "ErrDatabaseNotExists"

ErrBackend == "ErrBackend"

ErrInvalid == "ErrInvalid"

Nil == "nil"

Panic == "panic"

VARIABLES
    dDrivers,    \* store.go:79  name -> DBDriver
    cDrivers,    \* store.go:80  name -> ConnectorDriver
    regCalls,    \* number of Register* calls made
    lastReg,     \* the last Register* call and its outcome
    conf,        \* the configuration handed to NewStore
    storeMade,   \* outcome of NewStore: "none", "ok" or ErrNotRegister
    sdb,         \* Store.db        (0 = nil)
    sconnector,  \* Store.connector (0 = nil)
    openCalls,   \* number of Store.Open calls made
    cTask,       \* k -> state of the connector-open goroutine of Open call k
    dTask,       \* k -> state of the db-open goroutine of Open call k
    kv,          \* contents of the storage backend
    dbClosed,    \* k -> whether DB.Close was invoked on handle k
    nCalls,      \* number of Store.CheckAndPut calls made
    call,        \* the CheckAndPut call in progress / last finished
    closer,      \* the Store.Close call in progress / last finished
    lastOp,      \* the last Health/Get/List/BatchDelete call and its result
    conn,        \* k -> the kafka.Connector created by Open call k
    nSends,      \* number of direct Connector.Send calls made
    sender,      \* the direct Connector.Send call in progress / last finished
    codec        \* one event taken through putQueue's and runProducer's codec

vars == <<dDrivers, cDrivers, regCalls, lastReg, conf, storeMade, sdb,
          sconnector, openCalls, cTask, dTask, kv, dbClosed, nCalls, call,
          closer, lastOp, conn, nSends, sender, codec>>

regVars == <<dDrivers, cDrivers, regCalls, lastReg>>

confVars == <<conf, storeMade>>

storeVars == <<sdb, sconnector, openCalls, cTask, dTask>>

backendVars == <<kv, dbClosed>>

callVars == <<nCalls, call>>

sendVars == <<nSends, sender>>

(* --------------------------- driver registry -------------------------- *)

MapPut(m, k, v) == [n \in DOMAIN m \cup {k} |-> IF n = k THEN v ELSE m[n]]

EmptyMap == [n \in {} |-> 0]

\* A buggy registration that overwrites silently.
RegisterOverwrite(table, driver) ==
    /\ regCalls < MaxRegCalls
    /\ regCalls' = regCalls + 1
    /\ lastReg' = [table |-> table, driver |-> driver, outcome |-> "ok"]
    /\ IF table = "db"
       THEN /\ dDrivers' = MapPut(dDrivers, driver.name, driver)
            /\ UNCHANGED cDrivers
       ELSE /\ cDrivers' = MapPut(cDrivers, driver.name, driver)
            /\ UNCHANGED dDrivers

\* RegisterDB (table = "db") and RegisterConnector (table = "connector").
Register(table, driver) ==
    LET m == IF table = "db" THEN dDrivers ELSE cDrivers
        name == driver.name
    IN /\ regCalls < MaxRegCalls
       /\ regCalls' = regCalls + 1
       /\ IF name \in DOMAIN m
          THEN /\ lastReg' = [table |-> table, driver |-> driver,
                              outcome |-> Panic]
               /\ UNCHANGED <<dDrivers, cDrivers>>
          ELSE /\ lastReg' = [table |-> table, driver |-> driver,
                              outcome |-> "ok"]
               /\ IF table = "db"
                  THEN /\ dDrivers' = MapPut(dDrivers, name, driver)
                       /\ UNCHANGED cDrivers
                  ELSE /\ cDrivers' = MapPut(cDrivers, name, driver)
                       /\ UNCHANGED dDrivers

Drivers == [name : DriverNames, id : DriverIds]

NoReg == [table |-> "none", driver |-> [name |-> "", id |-> 0],
          outcome |-> "none"]

NoConf == [Connector |-> [Name |-> "", EnableProducer |-> FALSE],
           Store |-> [Name |-> ""]]

Confs == [Connector : [Name : DriverNames, EnableProducer : BOOLEAN],
          Store : [Name : DriverNames]]

\* NewStore(conf): both names must be registered.
NewStoreResult(c) ==
    IF c.Connector.Name \notin DOMAIN cDrivers THEN ErrNotRegister
    ELSE IF c.Store.Name \notin DOMAIN dDrivers THEN ErrNotRegister
    ELSE "ok"

(* ------------------------- byte strings, values ----------------------- *)

\* "u1"
KeyU1 == <<117, 49>>

Keys == {KeyU1}

\* "a", "b"
ValA == <<97>>

ValB == <<98>>

Values == {ValA, ValB}

\* kv[key] for a key the backend does not hold (no byte string).
Absent == <<256>>

\* store.go:34
NoValue == [Secondary |-> FALSE, Value |-> <<>>]

\* The caller's raw entry bytes: '{' old new '}' stands for the JSON object
\* {"old": old, "new": new}; anything else non-empty does not decode.
JsonEntry(old, new) == <<123>> \o old \o new \o <<125>>

BadEntry == <<123, 97>>

Entries == {<<>>, BadEntry, JsonEntry(ValA, ValB)}

\* json.Unmarshal(entry, &l) into a Log{Old, New}.
Unmarshal(entry) ==
    IF Len(entry) = 4 /\ entry[1] = 123 /\ entry[4] = 125
    THEN [err |-> Nil, Old |-> <<entry[2]>>, New |-> <<entry[3]>>]
    ELSE [err |-> ErrInvalid, Old |-> <<>>, New |-> <<>>]

\* The caller-supplied CheckFunc(oldVal, newVal, existVal): "cas" accepts when
\* the stored value is the expected one, "put" always accepts.
CheckFuncs == {"cas", "put"}

Check(f, oldVal, newVal, existVal) ==
    IF f = "put" \/ existVal = oldVal
    THEN [val |-> newVal, err |-> Nil]
    ELSE [val |-> <<>>, err |-> ErrBackend]

(* -------------------------- storage backend --------------------------- *)
(* The DB interface of store.go:12-20; its implementation is outside the   *)
(* facade.  fail = TRUE is a backend failure (I/O, closed handle).         *)

DBFails(h, fail) == fail \/ dbClosed[h]

\* DB.Get: the value, a "not found" condition, or another error.
DBGet(h, key, fail) ==
    IF DBFails(h, fail) THEN [v |-> NoValue, err |-> ErrBackend]
    ELSE IF kv[key] = Absent THEN [v |-> NoValue, err |-> ErrNotExists]
    ELSE [v |-> [Secondary |-> FALSE, Value |-> kv[key]], err |-> Nil]

\* DB.CheckAndPut: runs check on the stored value, persists its result only
\* when it returns no error.
DBCheckAndPut(h, key, oldVal, newVal, f, fail) ==
    LET exist == IF kv[key] = Absent THEN <<>> ELSE kv[key]
        c == Check(f, oldVal, newVal, exist)
    IN IF DBFails(h, fail) THEN [err |-> ErrBackend, kv |-> kv]
       ELSE IF c.err # Nil THEN [err |-> c.err, kv |-> kv]
       ELSE [err |-> Nil, kv |-> [kv EXCEPT ![key] = c.val]]

\* DB.List over the whole key range: the rows held, at most limit of them.
DBList(h, limit, fail) ==
    LET held == {k \in Keys : kv[k] # Absent}
    IN IF DBFails(h, fail) THEN [rows |-> {}, err |-> ErrBackend]
       ELSE [rows |-> IF limit = 0 THEN {}
                      ELSE {[Key |-> k, Value |-> kv[k]] : k \in held},
             err |-> Nil]

\* DB.BatchDelete over the whole key range: deletes the rows held.
DBBatchDelete(h, limit, fail) ==
    LET held == IF limit = 0 THEN {} ELSE {k \in Keys : kv[k] # Absent}
    IN IF DBFails(h, fail)
       THEN [lastKey |-> <<>>, deleted |-> 0, err |-> ErrBackend, kv |-> kv]
       ELSE [lastKey |-> <<>>, deleted |-> Cardinality(held), err |-> Nil,
             kv |-> [k \in Keys |-> IF k \in held THEN Absent ELSE kv[k]]]

\* DB.UnsafeDelete over the whole key range.
DBUnsafeDelete(h, fail) ==
    IF DBFails(h, fail) THEN [err |-> ErrBackend, kv |-> kv]
    ELSE [err |-> Nil, kv |-> [k \in Keys |-> Absent]]

(* ------------------------ kafka.Connector state ----------------------- *)

NoMsg == [Key |-> <<>>, Entry |-> <<>>]

\* The connector before Driver.Open has built it.
NoConn ==
    [made        |-> FALSE,    \* the Connector struct and its queue exist
     writeChan   |-> <<>>,     \* buffered intake, capacity MaxMessage
     chanClosed  |-> FALSE,    \* close(writeChan) was executed
     qpc         |-> "off",    \* runQueue: off, recv, fallback, exit, panic
     qmsg        |-> NoMsg,    \* the entry runQueue holds in its fallback
     timer       |-> "idle",   \* runQueue's timer: running, fired, idle
     queue       |-> <<>>,     \* records appended to the durable queue
     appended    |-> <<>>,     \* the events putQueue appended, in order
     qread       |-> 0,        \* records delivered on queue.ReadChan()
     queueClosed |-> FALSE,    \* queue.Close() was executed
     downAppends |-> 0,        \* records appended while the producer was down
     putLate     |-> FALSE,    \* queue.Put was called after queue.Close()
     producer    |-> "none",   \* remote producer: none, open, closed
     accepting   |-> FALSE,    \* the producer is ready to take an input
     input       |-> <<>>,     \* messages the producer took on Input()
     errors      |-> 0,        \* errors waiting on producer.Errors()
     emitted     |-> 0,        \* errors emitted so far
     ppc         |-> "off",    \* runProducer: off, select, send, exit, panic
     pmsg        |-> NoMsg,    \* the message runProducer is sending
     timeoutLog  |-> <<>>,     \* events logged as "put kafka timeout"
     dropLog     |-> <<>>]     \* keys dropped with remote publishing disabled

ConnIds == 1..MaxOpenCalls

(* --------------------------- record encoding -------------------------- *)

\* binary.Write(&buf, binary.BigEndian, uint32(n))
BigEndian32(n) ==
    <<(n \div 16777216) % 256, (n \div 65536) % 256, (n \div 256) % 256,
      n % 256>>

\* binary.BigEndian.Uint32(b[:4])
Uint32(b) == b[1] * 16777216 + b[2] * 65536 + b[3] * 256 + b[4]

\* putQueue: [4-byte key length][key][entry]
Encode(msg) == BigEndian32(Len(msg.Key)) \o msg.Key \o msg.Entry

\* A decode that takes the key from the start of the record.
DecodeFromStart(body) ==
    LET keyLen == Uint32(body)
    IN [Key |-> SubSeq(body, 1, keyLen),
        Value |-> SubSeq(body, keyLen + 1, Len(body))]

\* runProducer: Key = body[4 : keyLen+4], Value = body[keyLen+4:]
Decode(body) ==
    LET keyLen == Uint32(body)
    IN [Key |-> SubSeq(body, 5, keyLen + 4),
        Value |-> SubSeq(body, keyLen + 5, Len(body))]

\* The bytes the codec is exercised with: 0x00, '1', 'k', 'v', 0xFF.
CodecBytes == {0, 49, 107, 118, 255}

RECURSIVE Strings(_)

\* The byte strings over CodecBytes of length n.
Strings(n) ==
    IF n = 0 THEN {<<>>}
    ELSE {<<b>> \o t : b \in CodecBytes, t \in Strings(n - 1)}

ByteStrings == UNION {Strings(n) : n \in 0..MaxLen}

NoCodec == [pc |-> "off", msg |-> NoMsg, body |-> <<>>,
            out |-> [Key |-> <<>>, Value |-> <<>>]]

\* putQueue(msg) builds the record in writeBuf and appends it.
PutQueueEncode ==
    /\ codec.pc = "new"
    /\ codec' = [codec EXCEPT !.pc = "queued", !.body = Encode(codec.msg)]
    /\ UNCHANGED <<regVars, confVars, storeVars, backendVars, callVars,
                   closer, lastOp, conn, sendVars>>

\* runProducer splits the record it read into the message's key and value.
RunProducerDecode ==
    /\ codec.pc = "queued"
    /\ codec' = [codec EXCEPT !.pc = "read", !.out = Decode(codec.body)]
    /\ UNCHANGED <<regVars, confVars, storeVars, backendVars, callVars,
                   closer, lastOp, conn, sendVars>>

(* --------------------------- kafka.Connector -------------------------- *)

Full(c) == Len(conn[c].writeChan) >= MaxMessage

\* A Send that gives up when the intake is full instead of waiting.
SendDropWhenFull(c, msg) ==
    /\ ~conn[c].chanClosed
    /\ conn' = IF Full(c) THEN conn
               ELSE [conn EXCEPT ![c].writeChan = Append(@, msg)]

\* Connector.Send returning: c.writeChan <- msg went through.  Disabled
\* (the caller waits) while the intake is full.
Send(c, msg) ==
    /\ ~conn[c].chanClosed
    /\ ~Full(c)
    /\ conn' = [conn EXCEPT ![c].writeChan = Append(@, msg)]

\* c.writeChan <- msg on a closed channel panics, also for a waiting sender.
SendPanics(c) == conn[c].chanClosed

\* The state Driver.Open leaves: the queue, the struct, go conn.runQueue().
Opened == [NoConn EXCEPT !.made = TRUE, !.qpc = "recv", !.timer = "running"]

\* ... and, with EnableProducer, the producer and go conn.runProducer().
OpenedWithProducer ==
    [Opened EXCEPT !.producer = "open", !.accepting = TRUE, !.ppc = "select"]

\* A Driver.Open that starts the producer whatever the configuration says.
DriverOpenStartsProducer(out) ==
    IF out = "mkdirFail" THEN [conn |-> NoConn, err |-> ErrBackend]
    ELSE IF out = "producerFail" THEN [conn |-> Opened, err |-> ErrBackend]
    ELSE [conn |-> OpenedWithProducer, err |-> Nil]

\* Driver.Open(conf): the connector it builds (or NoConn) and its error.
DriverOpen(out) ==
    IF out = "mkdirFail" THEN [conn |-> NoConn, err |-> ErrBackend]
    ELSE IF ~conf.Connector.EnableProducer THEN [conn |-> Opened, err |-> Nil]
    ELSE IF out = "producerFail" THEN [conn |-> Opened, err |-> ErrBackend]
    ELSE [conn |-> OpenedWithProducer, err |-> Nil]

OpenOutcomes ==
    IF conf.Connector.EnableProducer THEN {"mkdirFail", "producerFail", "ok"}
    ELSE {"mkdirFail", "ok"}

\* runQueue's fallback wait ending on the timer, with a retry in place of
\* the drop.
TimeoutRetry(c) ==
    [conn EXCEPT ![c].timer = "running",
                 ![c].timeoutLog = Append(@, conn[c].qmsg)]

\* runQueue, case <-timer.C: the event is logged and dropped.
TimeoutDrop(c) ==
    [conn EXCEPT ![c].timer = "idle",
                 ![c].timeoutLog = Append(@, conn[c].qmsg),
                 ![c].qmsg = NoMsg,
                 ![c].qpc = "recv"]

\* runQueue, one receive: msg, ok := <-c.writeChan; putQueue(msg); on a
\* failed append either the drop (producer disabled) or the start of the
\* bounded direct send.
RunQueueRecv(c) ==
    /\ conn[c].qpc = "recv"
    /\ IF conn[c].writeChan # <<>>
       THEN LET msg == Head(conn[c].writeChan)
            IN \E fail \in BOOLEAN :
                 IF ~fail /\ ~conn[c].queueClosed
                 THEN conn' = [conn EXCEPT
                                 ![c].writeChan = Tail(@),
                                 ![c].downAppends =
                                     IF conn[c].producer = "open"
                                        /\ ~conn[c].accepting
                                     THEN @ + 1 ELSE @,
                                 ![c].appended = Append(@, msg),
                                 ![c].queue = Append(@, Encode(msg))]
                 ELSE IF ~conf.Connector.EnableProducer
                 THEN conn' = [conn EXCEPT
                                 ![c].writeChan = Tail(@),
                                 ![c].putLate = @ \/ conn[c].queueClosed,
                                 ![c].dropLog = Append(@, msg.Key)]
                 ELSE conn' = [conn EXCEPT
                                 ![c].writeChan = Tail(@),
                                 ![c].putLate = @ \/ conn[c].queueClosed,
                                 ![c].timer = "running",
                                 ![c].qmsg = msg,
                                 ![c].qpc = "fallback"]
       ELSE /\ conn[c].chanClosed
            /\ conn' = [conn EXCEPT ![c].qpc = "exit"]
    /\ UNCHANGED <<codec, regVars, confVars, storeVars, backendVars, callVars,
                   closer, lastOp, sendVars>>

\* runQueue, case c.producer.Input() <- input: the producer takes the
\* event directly.  A closed producer's input panics the sender.
RunQueueDirect(c) ==
    /\ conn[c].qpc = "fallback"
    /\ \/ /\ conn[c].producer = "open"
          /\ conn[c].accepting
          /\ conn' = [conn EXCEPT
                        ![c].input = Append(@, [Key |-> conn[c].qmsg.Key,
                                                Value |-> conn[c].qmsg.Entry,
                                                via |-> "direct"]),
                        ![c].qmsg = NoMsg,
                        ![c].qpc = "recv"]
       \/ /\ conn[c].producer = "closed"
          /\ conn' = [conn EXCEPT ![c].qpc = Panic]
    /\ UNCHANGED <<codec, regVars, confVars, storeVars, backendVars, callVars,
                   closer, lastOp, sendVars>>

\* runQueue, case <-timer.C.
RunQueueTimeout(c) ==
    /\ conn[c].qpc = "fallback"
    /\ conn[c].timer = "fired"
    /\ conn' = TimeoutDrop(c)
    /\ UNCHANGED <<codec, regVars, confVars, storeVars, backendVars, callVars,
                   closer, lastOp, sendVars>>

\* The write timeout elapses: the timer puts its tick on timer.C.
TimerFire(c) ==
    /\ conn[c].timer = "running"
    /\ conn' = [conn EXCEPT ![c].timer = "fired"]
    /\ UNCHANGED <<codec, regVars, confVars, storeVars, backendVars, callVars,
                   closer, lastOp, sendVars>>

WellFormed(body) == Len(body) >= 4 /\ Uint32(body) + 4 <= Len(body)

\* A read stream that delivers the newest record first.
NextRecordNewest(c) == Len(conn[c].queue)

\* The index of the record queue.ReadChan() delivers next.
NextRecord(c) == conn[c].qread + 1

\* A runProducer that gives up at the first producer error.
AfterErrorReturn(c) == "exit"

\* runProducer after logging a producer error: back to its select.
AfterError(c) == "select"

\* runProducer's select: an error from producer.Errors() is logged, a closed
\* error stream ends the task, a record from queue.ReadChan() is decoded.
RunProducerSelect(c) ==
    /\ conn[c].ppc = "select"
    /\ \/ /\ conn[c].errors > 0
          /\ conn' = [conn EXCEPT ![c].errors = @ - 1,
                                  ![c].ppc = AfterError(c)]
       \/ /\ conn[c].errors = 0
          /\ conn[c].producer = "closed"
          /\ conn' = [conn EXCEPT ![c].ppc = "exit"]
       \/ /\ conn[c].qread < Len(conn[c].queue)
          /\ ~conn[c].queueClosed
          /\ LET body == conn[c].queue[NextRecord(c)]
             IN IF WellFormed(body)
                THEN conn' = [conn EXCEPT
                                ![c].qread = @ + 1,
                                ![c].pmsg = [Key |-> Decode(body).Key,
                                             Entry |-> Decode(body).Value],
                                ![c].ppc = "send"]
                ELSE conn' = [conn EXCEPT ![c].qread = @ + 1,
                                          ![c].ppc = Panic]
    /\ UNCHANGED <<codec, regVars, confVars, storeVars, backendVars, callVars,
                   closer, lastOp, sendVars>>

\* runProducer: c.producer.Input() <- &sarama.ProducerMessage{...}
RunProducerSend(c) ==
    /\ conn[c].ppc = "send"
    /\ \/ /\ conn[c].producer = "open"
          /\ conn[c].accepting
          /\ conn' = [conn EXCEPT
                        ![c].input = Append(@, [Key |-> conn[c].pmsg.Key,
                                                Value |-> conn[c].pmsg.Entry,
                                                via |-> "queue"]),
                        ![c].pmsg = NoMsg,
                        ![c].ppc = "select"]
       \/ /\ conn[c].producer = "closed"
          /\ conn' = [conn EXCEPT ![c].ppc = Panic]
    /\ UNCHANGED <<codec, regVars, confVars, storeVars, backendVars, callVars,
                   closer, lastOp, sendVars>>

\* A record on disk is damaged before runProducer reads it: its key-length
\* field becomes larger than what follows it.
CorruptRecord(c) ==
    /\ \E i \in (conn[c].qread + 1)..Len(conn[c].queue) :
         /\ WellFormed(conn[c].queue[i])
         /\ conn' = [conn EXCEPT ![c].queue[i][4] = 255]
    /\ UNCHANGED <<codec, regVars, confVars, storeVars, backendVars, callVars,
                   closer, lastOp, sendVars>>

\* The remote producer stops or resumes taking input (broker down / up).
ProducerToggle(c) ==
    /\ conn[c].producer = "open"
    /\ conn' = [conn EXCEPT ![c].accepting = ~@]
    /\ UNCHANGED <<codec, regVars, confVars, storeVars, backendVars, callVars,
                   closer, lastOp, sendVars>>

\* The remote producer reports the failed delivery of a message it took,
\* at most once per message, on its error stream.
ProducerError(c) ==
    /\ conn[c].producer = "open"
    /\ conn[c].emitted < Len(conn[c].input)
    /\ conn' = [conn EXCEPT ![c].errors = @ + 1, ![c].emitted = @ + 1]
    /\ UNCHANGED <<codec, regVars, confVars, storeVars, backendVars, callVars,
                   closer, lastOp, sendVars>>

(* ------------------------------- Store -------------------------------- *)

NewStore(c) ==
    /\ storeMade = "none"
    /\ conf' = c
    /\ storeMade' = NewStoreResult(c)
    /\ UNCHANGED <<codec, regVars, storeVars, backendVars, callVars, closer, lastOp,
                   conn, sendVars>>

RegisterDB(driver) ==
    /\ Register("db", driver)
    /\ UNCHANGED <<codec, confVars, storeVars, backendVars, callVars, closer, lastOp,
                   conn, sendVars>>

RegisterConnector(driver) ==
    /\ Register("connector", driver)
    /\ UNCHANGED <<codec, confVars, storeVars, backendVars, callVars, closer, lastOp,
                   conn, sendVars>>

\* Store.Open: launches the two opening goroutines and returns.
Open ==
    /\ storeMade = "ok"
    /\ openCalls < MaxOpenCalls
    /\ openCalls' = openCalls + 1
    /\ cTask' = [cTask EXCEPT ![openCalls + 1] = "pending"]
    /\ dTask' = [dTask EXCEPT ![openCalls + 1] = "pending"]
    /\ UNCHANGED <<codec, regVars, confVars, sdb, sconnector, backendVars, callVars,
                   closer, lastOp, conn, sendVars>>

\* The Store.Open call of a caller that opens the Store once.
FirstOpen == openCalls = 0 /\ Open

\* The first goroutine of Open: cDriver.Open(s.conf), then s.connector.
OpenConnector(k) ==
    /\ cTask[k] = "pending"
    /\ \E out \in OpenOutcomes :
         LET r == DriverOpen(out)
         IN /\ conn' = [conn EXCEPT ![k] = r.conn]
            /\ IF r.err # Nil
               THEN /\ cTask' = [cTask EXCEPT ![k] = "failed"]
                    /\ UNCHANGED sconnector
               ELSE /\ cTask' = [cTask EXCEPT ![k] = "ok"]
                    /\ sconnector' = k
    /\ UNCHANGED <<codec, regVars, confVars, sdb, openCalls, dTask, backendVars,
                   callVars, closer, lastOp, sendVars>>

\* A db-open goroutine that stores a handle although the open failed.
OpenDBStoresOnFailure(k) ==
    /\ dTask[k] = "pending"
    /\ \E ok \in BOOLEAN :
         /\ dTask' = [dTask EXCEPT ![k] = IF ok THEN "ok" ELSE "failed"]
         /\ sdb' = k
    /\ UNCHANGED <<codec, regVars, confVars, sconnector, openCalls, cTask,
                   backendVars, callVars, closer, lastOp, conn, sendVars>>

\* The second goroutine of Open: dDriver.Open(s.conf), then s.db.
OpenDB(k) ==
    /\ dTask[k] = "pending"
    /\ \E ok \in BOOLEAN :
         IF ok
         THEN /\ dTask' = [dTask EXCEPT ![k] = "ok"]
              /\ sdb' = k
         ELSE /\ dTask' = [dTask EXCEPT ![k] = "failed"]
              /\ UNCHANGED sdb
    /\ UNCHANGED <<codec, regVars, confVars, sconnector, openCalls, cTask,
                   backendVars, callVars, closer, lastOp, conn, sendVars>>

NoOp == [op |-> "none", dbSeen |-> 0, dbCalled |-> FALSE, dbErr |-> Nil,
         v |-> NoValue, rows |-> {}, deleted |-> 0, err |-> Nil]

\* Store.Health
Health == [NoOp EXCEPT !.op = "Health", !.dbSeen = sdb,
                       !.err = IF sdb = 0 THEN ErrDatabaseNotExists ELSE Nil]

\* A Get that surfaces the backend's "not found" like any other error.
GetSurfacesNotFound(key, fail) ==
    IF sdb = 0
    THEN [NoOp EXCEPT !.op = "Get", !.err = ErrNotExists]
    ELSE LET g == DBGet(sdb, key, fail)
         IN [NoOp EXCEPT !.op = "Get", !.dbSeen = sdb, !.dbCalled = TRUE,
                         !.dbErr = g.err,
                         !.v = IF g.err # Nil THEN NoValue ELSE g.v,
                         !.err = g.err]

\* Store.Get
Get(key, fail) ==
    IF sdb = 0
    THEN [NoOp EXCEPT !.op = "Get", !.err = ErrNotExists]
    ELSE LET g == DBGet(sdb, key, fail)
         IN IF g.err # Nil /\ g.err # ErrNotExists
            THEN [NoOp EXCEPT !.op = "Get", !.dbSeen = sdb, !.dbCalled = TRUE,
                              !.dbErr = g.err, !.err = g.err]
            ELSE [NoOp EXCEPT !.op = "Get", !.dbSeen = sdb, !.dbCalled = TRUE,
                              !.dbErr = g.err, !.v = g.v]

\* Store.List
List(limit, fail) ==
    IF sdb = 0
    THEN [NoOp EXCEPT !.op = "List", !.err = ErrNotExists]
    ELSE LET l == DBList(sdb, limit, fail)
         IN [NoOp EXCEPT !.op = "List", !.dbSeen = sdb, !.dbCalled = TRUE,
                         !.dbErr = l.err, !.err = l.err,
                         !.rows = IF l.err # Nil THEN {} ELSE l.rows]

\* Store.BatchDelete: the call's result and the backend's new contents.
BatchDelete(limit, fail) ==
    IF sdb = 0
    THEN [res |-> [NoOp EXCEPT !.op = "BatchDelete", !.err = ErrNotExists],
          kv |-> kv]
    ELSE LET d == DBBatchDelete(sdb, limit, fail)
         IN [res |-> [NoOp EXCEPT !.op = "BatchDelete", !.dbSeen = sdb,
                                  !.dbCalled = TRUE, !.dbErr = d.err,
                                  !.err = d.err, !.deleted = d.deleted],
             kv |-> d.kv]

Limits == {0, 1}

\* One call of a read-side operation of the facade.
Query ==
    /\ storeMade = "ok"
    /\ \E fail \in BOOLEAN :
         \/ lastOp' = Health /\ ~fail /\ UNCHANGED kv
         \/ \E key \in Keys : lastOp' = Get(key, fail) /\ UNCHANGED kv
         \/ \E limit \in Limits : lastOp' = List(limit, fail) /\ UNCHANGED kv
         \/ \E limit \in Limits :
              /\ lastOp' = BatchDelete(limit, fail).res
              /\ kv' = BatchDelete(limit, fail).kv
    /\ UNCHANGED <<codec, regVars, confVars, storeVars, dbClosed, callVars, closer,
                   conn, sendVars>>

\* Store.UnsafeDelete: s.db.UnsafeDelete is called without a test of s.db
\* (a method call on the nil interface panics); the backend's error is
\* logged, nothing is returned.
UnsafeDelete(fail) ==
    /\ storeMade = "ok"
    /\ IF sdb = 0
       THEN /\ lastOp' = [NoOp EXCEPT !.op = "UnsafeDelete",
                                      !.dbCalled = TRUE, !.err = Panic]
            /\ UNCHANGED kv
       ELSE LET d == DBUnsafeDelete(sdb, fail)
            IN /\ lastOp' = [NoOp EXCEPT !.op = "UnsafeDelete",
                                         !.dbSeen = sdb, !.dbCalled = TRUE,
                                         !.dbErr = d.err]
               /\ kv' = d.kv
    /\ UNCHANGED <<codec, regVars, confVars, storeVars, dbClosed, callVars,
                   closer, conn, sendVars>>

NoCall == [pc |-> "idle", key |-> <<>>, entry |-> <<>>,
           dbSeen |-> 0, dbCalls |-> 0, accepted |-> FALSE, sends |-> 0,
           sentTo |-> 0, sentMsg |-> NoMsg, result |-> "none"]

\* A hand-off that does not look at the backend's verdict.
ReplicatesAlways(err, connector) == connector # 0

\* Store.CheckAndPut, lines 188-193: Send is reached when the backend's
\* CheckAndPut returned no error and s.connector is set.
Replicates(err, connector) == err = Nil /\ connector # 0

\* Store.CheckAndPut up to the hand-off: the guards, the decode, the
\* backend's CheckAndPut, and the test of s.connector.
CheckAndPutBegin(key, entry, f, fail) ==
    LET base == [NoCall EXCEPT !.key = key, !.entry = entry,
                               !.dbSeen = sdb]
        l == Unmarshal(entry)
        r == DBCheckAndPut(sdb, key, l.Old, l.New, f, fail)
    IN /\ storeMade = "ok"
       /\ call.pc # "send"
       /\ nCalls < MaxCalls
       /\ nCalls' = nCalls + 1
       /\ IF sdb = 0 \/ Len(entry) = 0
          THEN /\ call' = [base EXCEPT !.pc = "done", !.result = ErrNotExists]
               /\ UNCHANGED kv
          ELSE IF l.err # Nil
          THEN /\ call' = [base EXCEPT !.pc = "done", !.result = l.err]
               /\ UNCHANGED kv
          ELSE /\ kv' = r.kv
               /\ IF Replicates(r.err, sconnector)
                  THEN call' = [base EXCEPT
                                  !.pc = "send", !.dbCalls = 1,
                                  !.accepted = (r.err = Nil), !.sends = 1,
                                  !.sentTo = sconnector,
                                  !.sentMsg = [Key |-> key, Entry |-> entry]]
                  ELSE IF r.err # Nil
                  THEN call' = [base EXCEPT !.pc = "done", !.dbCalls = 1,
                                            !.result = r.err]
                  ELSE call' = [base EXCEPT !.pc = "done", !.dbCalls = 1,
                                            !.accepted = TRUE, !.result = Nil]
       /\ UNCHANGED <<codec, regVars, confVars, storeVars, dbClosed, closer, lastOp,
                      conn, sendVars>>

\* Store.CheckAndPut, line 194: s.connector.Send(...) called in line, its
\* result ignored, then return nil.
CheckAndPutSend ==
    /\ call.pc = "send"
    /\ \/ /\ Send(call.sentTo, call.sentMsg)
          /\ call' = [call EXCEPT !.pc = "done", !.result = Nil]
       \/ /\ SendPanics(call.sentTo)
          /\ call' = [call EXCEPT !.pc = "done", !.result = Panic]
          /\ UNCHANGED conn
    /\ UNCHANGED <<codec, regVars, confVars, storeVars, backendVars, nCalls, closer,
                   lastOp, sendVars>>

NoCloser == [pc |-> "idle", calls |-> 0, connSeen |-> 0, dbSeen |-> 0,
             dbCalled |-> FALSE, dbErr |-> Nil, result |-> "none"]

\* A Close that goes to the backend without closing the connector.
CloseFirstStepSkip(c) == "db"

\* Store.Close, line 138: the connector is closed first when it is set.
CloseFirstStep(c) == IF c # 0 THEN "chan" ELSE "db"

\* Store.Close begins: if s.connector != nil.
CloseBegin ==
    /\ storeMade = "ok"
    /\ closer.pc \in {"idle", "done"}
    /\ closer.calls < MaxCloseCalls
    /\ closer' = [NoCloser EXCEPT !.calls = closer.calls + 1,
                                  !.connSeen = sconnector,
                                  !.pc = CloseFirstStep(sconnector)]
    /\ UNCHANGED <<codec, regVars, confVars, storeVars, backendVars, callVars,
                   lastOp, conn, sendVars>>

\* Connector.Close: close(c.writeChan); closing a closed channel panics.
ConnCloseChan ==
    /\ closer.pc = "chan"
    /\ IF conn[closer.connSeen].chanClosed
       THEN /\ closer' = [closer EXCEPT !.pc = "done", !.result = Panic]
            /\ UNCHANGED conn
       ELSE /\ closer' = [closer EXCEPT !.pc = "queue"]
            /\ conn' = [conn EXCEPT ![closer.connSeen].chanClosed = TRUE]
    /\ UNCHANGED <<codec, regVars, confVars, storeVars, backendVars, callVars,
                   lastOp, sendVars>>

\* Connector.Close: c.queue.Close(), its error logged.
ConnCloseQueue ==
    /\ closer.pc = "queue"
    /\ closer' = [closer EXCEPT
                    !.pc = IF conf.Connector.EnableProducer THEN "producer"
                           ELSE "db"]
    /\ conn' = [conn EXCEPT ![closer.connSeen].queueClosed = TRUE]
    /\ UNCHANGED <<codec, regVars, confVars, storeVars, backendVars, callVars,
                   lastOp, sendVars>>

\* Connector.Close: c.producer.Close() when EnableProducer.
ConnCloseProducer ==
    /\ closer.pc = "producer"
    /\ closer' = [closer EXCEPT !.pc = "db"]
    /\ conn' = [conn EXCEPT ![closer.connSeen].producer = "closed",
                            ![closer.connSeen].accepting = FALSE,
                            ![closer.connSeen].errors = 0]
    /\ UNCHANGED <<codec, regVars, confVars, storeVars, backendVars, callVars,
                   lastOp, sendVars>>

\* Store.Close, lines 142-146: return s.db.Close(), or nil.
CloseReturn(dbSet, err) == IF dbSet THEN err ELSE Nil

\* Store.Close ends: if s.db != nil { return s.db.Close() }; return nil.
CloseDB ==
    /\ closer.pc = "db"
    /\ IF sdb # 0
       THEN \E err \in {Nil, ErrBackend} :
              /\ closer' = [closer EXCEPT !.pc = "done", !.dbSeen = sdb,
                                          !.dbCalled = TRUE, !.dbErr = err,
                                          !.result = CloseReturn(TRUE, err)]
              /\ dbClosed' = [dbClosed EXCEPT ![sdb] = TRUE]
       ELSE /\ closer' = [closer EXCEPT !.pc = "done",
                                        !.result = CloseReturn(FALSE, Nil)]
            /\ UNCHANGED dbClosed
    /\ UNCHANGED <<codec, regVars, confVars, storeVars, kv, callVars, lastOp, conn,
                   sendVars>>

(* ------------------- a caller of Connector.Send ----------------------- *)

NoSender == [pc |-> "idle", to |-> 0, msg |-> NoMsg, result |-> "none"]

SendKeys == {KeyU1}

\* A replication caller invokes Send on the store's connector; the payload
\* is the number of the call, so that events are told apart.
DirectSendBegin ==
    /\ sconnector # 0
    /\ sender.pc # "send"
    /\ nSends < MaxSends
    /\ nSends' = nSends + 1
    /\ \E key \in SendKeys :
         sender' = [pc |-> "send", to |-> sconnector,
                    msg |-> [Key |-> key, Entry |-> <<nSends + 1>>],
                    result |-> "none"]
    /\ UNCHANGED <<codec, regVars, confVars, storeVars, backendVars, callVars,
                   closer, lastOp, conn>>

\* The Send returns (or panics on a closed intake).
DirectSendEnd ==
    /\ sender.pc = "send"
    /\ \/ /\ Send(sender.to, sender.msg)
          /\ sender' = [sender EXCEPT !.pc = "done", !.result = Nil]
       \/ /\ SendPanics(sender.to)
          /\ sender' = [sender EXCEPT !.pc = "done", !.result = Panic]
          /\ UNCHANGED conn
    /\ UNCHANGED <<codec, regVars, confVars, storeVars, backendVars, callVars,
                   closer, lastOp, nSends>>

(* --------------------------- specifications --------------------------- *)

TheDBDriver == [name |-> "tikv", id |-> 1]

TheConnectorDriver == [name |-> "kafka", id |-> 1]

TheConf(enable) ==
    [Connector |-> [Name |-> "kafka", EnableProducer |-> enable],
     Store |-> [Name |-> "tikv"]]

\* Nothing registered, no Store built.
InitRegistry ==
    /\ dDrivers = EmptyMap
    /\ cDrivers = EmptyMap
    /\ regCalls = 0
    /\ lastReg = NoReg
    /\ conf = NoConf
    /\ storeMade = "none"
    /\ sdb = 0
    /\ sconnector = 0
    /\ openCalls = 0
    /\ cTask = [k \in ConnIds |-> "none"]
    /\ dTask = [k \in ConnIds |-> "none"]
    /\ kv = [k \in Keys |-> Absent]
    /\ dbClosed = [k \in ConnIds |-> FALSE]
    /\ nCalls = 0
    /\ call = NoCall
    /\ closer = NoCloser
    /\ lastOp = NoOp
    /\ conn = [k \in ConnIds |-> NoConn]
    /\ nSends = 0
    /\ sender = NoSender
    /\ codec = NoCodec

NextRegistry ==
    \/ \E d \in Drivers : RegisterDB(d)
    \/ \E d \in Drivers : RegisterConnector(d)
    \/ \E c \in Confs : NewStore(c)

SpecRegistry == InitRegistry /\ [][NextRegistry]_vars

\* Both drivers registered by the packages' init(), NewStore returned a
\* Store, remote publishing disabled; the backend holds "a" for "u1".
Init ==
    /\ dDrivers = MapPut(EmptyMap, "tikv", TheDBDriver)
    /\ cDrivers = MapPut(EmptyMap, "kafka", TheConnectorDriver)
    /\ regCalls = 2
    /\ lastReg = [table |-> "connector", driver |-> TheConnectorDriver,
                  outcome |-> "ok"]
    /\ conf = TheConf(FALSE)
    /\ storeMade = "ok"
    /\ sdb = 0
    /\ sconnector = 0
    /\ openCalls = 0
    /\ cTask = [k \in ConnIds |-> "none"]
    /\ dTask = [k \in ConnIds |-> "none"]
    /\ kv = [k \in Keys |-> ValA]
    /\ dbClosed = [k \in ConnIds |-> FALSE]
    /\ nCalls = 0
    /\ call = NoCall
    /\ closer = NoCloser
    /\ lastOp = NoOp
    /\ conn = [k \in ConnIds |-> NoConn]
    /\ nSends = 0
    /\ sender = NoSender
    /\ codec = NoCodec

Next ==
    \/ FirstOpen
    \/ \E k \in ConnIds : OpenConnector(k)
    \/ \E k \in ConnIds : OpenDB(k)
    \/ \E key \in Keys, entry \in Entries, f \in CheckFuncs, fail \in BOOLEAN :
         CheckAndPutBegin(key, entry, f, fail)
    \/ CheckAndPutSend
    \/ CloseBegin
    \/ ConnCloseChan
    \/ ConnCloseQueue
    \/ CloseDB
    \/ \E c \in ConnIds : RunQueueRecv(c)

Spec == Init /\ [][Next]_vars

\* The facade's read side and its writes, from the same start.
NextQuery ==
    \/ FirstOpen
    \/ \E k \in ConnIds : OpenConnector(k)
    \/ \E k \in ConnIds : OpenDB(k)
    \/ Query
    \/ \E fail \in BOOLEAN : UnsafeDelete(fail)
    \/ \E key \in Keys, entry \in Entries, f \in CheckFuncs, fail \in BOOLEAN :
         CheckAndPutBegin(key, entry, f, fail)
    \/ CheckAndPutSend
    \/ \E c \in ConnIds : RunQueueRecv(c)

SpecQuery == Init /\ [][NextQuery]_vars

\* As Init, with remote publishing configured either way.
InitOpen ==
    /\ dDrivers = MapPut(EmptyMap, "tikv", TheDBDriver)
    /\ cDrivers = MapPut(EmptyMap, "kafka", TheConnectorDriver)
    /\ regCalls = 2
    /\ lastReg = [table |-> "connector", driver |-> TheConnectorDriver,
                  outcome |-> "ok"]
    /\ conf \in {TheConf(FALSE), TheConf(TRUE)}
    /\ storeMade = "ok"
    /\ sdb = 0
    /\ sconnector = 0
    /\ openCalls = 0
    /\ cTask = [k \in ConnIds |-> "none"]
    /\ dTask = [k \in ConnIds |-> "none"]
    /\ kv = [k \in Keys |-> ValA]
    /\ dbClosed = [k \in ConnIds |-> FALSE]
    /\ nCalls = 0
    /\ call = NoCall
    /\ closer = NoCloser
    /\ lastOp = NoOp
    /\ conn = [k \in ConnIds |-> NoConn]
    /\ nSends = 0
    /\ sender = NoSender
    /\ codec = NoCodec

\* Callers that call Open any number of times, and the read side.
NextOpen ==
    \/ Open
    \/ \E k \in ConnIds : OpenConnector(k)
    \/ \E k \in ConnIds : OpenDB(k)
    \/ Query
    \/ \E fail \in BOOLEAN : UnsafeDelete(fail)

SpecOpen == InitOpen /\ [][NextOpen]_vars

\* The connector pipeline: the Store is open with remote publishing
\* enabled (Open's two goroutines have stored their handles).
InitConnector ==
    /\ dDrivers = MapPut(EmptyMap, "tikv", TheDBDriver)
    /\ cDrivers = MapPut(EmptyMap, "kafka", TheConnectorDriver)
    /\ regCalls = 2
    /\ lastReg = [table |-> "connector", driver |-> TheConnectorDriver,
                  outcome |-> "ok"]
    /\ conf = TheConf(TRUE)
    /\ storeMade = "ok"
    /\ sdb = 1
    /\ sconnector = 1
    /\ openCalls = 1
    /\ cTask = [k \in ConnIds |-> IF k = 1 THEN "ok" ELSE "none"]
    /\ dTask = [k \in ConnIds |-> IF k = 1 THEN "ok" ELSE "none"]
    /\ kv = [k \in Keys |-> Absent]
    /\ dbClosed = [k \in ConnIds |-> FALSE]
    /\ nCalls = 0
    /\ call = NoCall
    /\ closer = NoCloser
    /\ lastOp = NoOp
    /\ conn = [k \in ConnIds |-> IF k = 1 THEN OpenedWithProducer ELSE NoConn]
    /\ nSends = 0
    /\ sender = NoSender
    /\ codec = NoCodec

NextConnector ==
    \/ DirectSendBegin
    \/ DirectSendEnd
    \/ \E c \in ConnIds : RunQueueRecv(c)
    \/ \E c \in ConnIds : RunQueueDirect(c)
    \/ \E c \in ConnIds : RunQueueTimeout(c)
    \/ \E c \in ConnIds : TimerFire(c)
    \/ \E c \in ConnIds : RunProducerSelect(c)
    \/ \E c \in ConnIds : RunProducerSend(c)
    \/ \E c \in ConnIds : ProducerToggle(c)
    \/ \E c \in ConnIds : ProducerError(c)
    \/ CloseBegin
    \/ ConnCloseChan
    \/ ConnCloseQueue
    \/ ConnCloseProducer
    \/ CloseDB

SpecConnector == InitConnector /\ [][NextConnector]_vars

\* The Go scheduler runs a goroutine that can step, and a running timer
\* fires.
FairSpecConnector ==
    /\ SpecConnector
    /\ \A c \in ConnIds : WF_vars(RunQueueRecv(c))
    /\ \A c \in ConnIds : WF_vars(RunQueueTimeout(c))
    /\ \A c \in ConnIds : WF_vars(TimerFire(c))

\* The record codec on its own: any key and entry up to MaxLen bytes.
InitCodec ==
    /\ dDrivers = MapPut(EmptyMap, "tikv", TheDBDriver)
    /\ cDrivers = MapPut(EmptyMap, "kafka", TheConnectorDriver)
    /\ regCalls = 2
    /\ lastReg = [table |-> "connector", driver |-> TheConnectorDriver,
                  outcome |-> "ok"]
    /\ conf = TheConf(TRUE)
    /\ storeMade = "ok"
    /\ sdb = 0
    /\ sconnector = 0
    /\ openCalls = 0
    /\ cTask = [k \in ConnIds |-> "none"]
    /\ dTask = [k \in ConnIds |-> "none"]
    /\ kv = [k \in Keys |-> Absent]
    /\ dbClosed = [k \in ConnIds |-> FALSE]
    /\ nCalls = 0
    /\ call = NoCall
    /\ closer = NoCloser
    /\ lastOp = NoOp
    /\ conn = [k \in ConnIds |-> NoConn]
    /\ nSends = 0
    /\ sender = NoSender
    /\ \E key \in ByteStrings, entry \in ByteStrings :
         codec = [NoCodec EXCEPT !.pc = "new",
                                 !.msg = [Key |-> key, Entry |-> entry]]

NextCodec ==
    \/ PutQueueEncode
    \/ RunProducerDecode

SpecCodec == InitCodec /\ [][NextCodec]_vars

\* The connector pipeline over a disk that can damage records.
NextCorrupt ==
    \/ NextConnector
    \/ \E c \in ConnIds : CorruptRecord(c)

SpecCorrupt == InitConnector /\ [][NextCorrupt]_vars

\* The remote producer's outage ends: it takes input again.
ProducerResume(c) == ProducerToggle(c) /\ ~conn[c].accepting

\* Fair scheduling of runProducer, and a producer that keeps consuming its
\* input: an outage ends, and an input offered again and again is taken.
FairSpecDelivery ==
    /\ SpecConnector
    /\ \A c \in ConnIds : WF_vars(RunProducerSelect(c))
    /\ \A c \in ConnIds : SF_vars(RunProducerSend(c))
    /\ \A c \in ConnIds : WF_vars(ProducerResume(c))

(* ------------------------------- claims ------------------------------- *)

\* The call in `call` was made with the backend open and a non-empty entry
\* that decodes, and saw a connector when the backend accepted.
C1_Case ==
    /\ call.dbSeen # 0
    /\ Len(call.entry) > 0
    /\ Unmarshal(call.entry).err = Nil
    /\ call.accepted => call.sentTo # 0

\* C1: a CheckAndPut call made with the backend open, a connector present
\* and a decodable non-empty entry ends in success if and only if the
\* backend's CheckAndPut accepted, and on success exactly one Send was
\* invoked, carrying KeyEntry{Key: key, Entry: the caller's raw entry}.
C1_SuccessIffBackendAccepted ==
    (call.pc = "done" /\ C1_Case) =>
        /\ (call.result = Nil) <=> call.accepted
        /\ call.result = Nil =>
             /\ call.sends = 1
             /\ call.sentMsg = [Key |-> call.key, Entry |-> call.entry]

\* C2: a CheckAndPut whose write the backend accepted never waits for the
\* connector: whenever it stands at the hand-off, the hand-off can complete
\* at once, whatever the state of the intake.
C2_HandOffNeverWaits ==
    call.pc = "send" =>
        \/ ~Full(call.sentTo)
        \/ conn[call.sentTo].chanClosed

SendReturns ==
    /\ sender.pc = "send"
    /\ sender'.pc = "done"
    /\ sender'.result = Nil

\* C3: the intake never holds more than MaxMessage entries; a Send returns
\* only from a state where the intake is below capacity (at capacity it
\* waits until the intake task has removed an entry), and a Send that
\* returns has appended its entry to the intake.
C3_Backpressure ==
    /\ [](\A c \in ConnIds : Len(conn[c].writeChan) <= MaxMessage)
    /\ [][SendReturns =>
            /\ ~Full(sender.to)
            /\ conn'[sender.to].writeChan
                 = Append(conn[sender.to].writeChan, sender.msg)]_vars

\* C3 witness: a Send waits on an intake at capacity.
C3_Witness ==
    /\ sender.pc = "send"
    /\ Full(sender.to)
    /\ ~conn[sender.to].chanClosed

IsViaQueue(m) == m.via = "queue"

\* The messages the producer took from the durable-queue-to-remote task.
ViaQueue(c) == SelectSeq(conn[c].input, IsViaQueue)

\* C4: the messages the durable-queue-to-remote task has handed to the
\* producer's input are, in order, the first events appended to the
\* durable queue, each with the key and the entry it was appended with.
C4_QueueOrder ==
    \A c \in ConnIds :
        /\ Len(ViaQueue(c)) <= Len(conn[c].appended)
        /\ \A i \in 1..Len(ViaQueue(c)) :
             /\ ViaQueue(c)[i].Key = conn[c].appended[i].Key
             /\ ViaQueue(c)[i].Value = conn[c].appended[i].Entry

\* C4 witness: two events with different payloads were appended while the
\* producer was not accepting input, and both have reached its input.
C4_Witness ==
    /\ conn[1].downAppends >= 2
    /\ Len(ViaQueue(1)) >= 2
    /\ ViaQueue(1)[1].Value # ViaQueue(1)[2].Value

\* The payloads in a sequence of producer messages / of queue records.
InputPayloads(c) == {conn[c].input[i].Value : i \in 1..Len(conn[c].input)}

QueuePayloads(c) ==
    {Decode(conn[c].queue[i]).Value : i \in 1..Len(conn[c].queue)}

IntakePayloads(c) ==
    {conn[c].writeChan[i].Entry : i \in 1..Len(conn[c].writeChan)}

TimedOut(c) ==
    /\ conn[c].qpc = "fallback"
    /\ Len(conn'[c].timeoutLog) # Len(conn[c].timeoutLog)

\* C5: while the intake task waits in its fallback the timer is armed; the
\* step that ends the wait on the timer logs the event once, hands nothing
\* to the producer, keeps the event nowhere in the pipeline and returns the
\* task to its receive loop; a logged event is logged once and is never in
\* the producer's input, the durable queue or the intake; and the wait
\* always ends.
C5_FallbackTimeout ==
    /\ [](\A c \in ConnIds :
            /\ conn[c].qpc = "fallback" => conn[c].timer \in {"running", "fired"}
            /\ \A i, j \in 1..Len(conn[c].timeoutLog) :
                 conn[c].timeoutLog[i] = conn[c].timeoutLog[j] => i = j
            /\ \A i \in 1..Len(conn[c].timeoutLog) :
                 /\ conn[c].timeoutLog[i].Entry \notin InputPayloads(c)
                 /\ conn[c].timeoutLog[i].Entry \notin QueuePayloads(c)
                 /\ conn[c].timeoutLog[i].Entry \notin IntakePayloads(c)
                 /\ conn[c].timeoutLog[i] # conn[c].qmsg
                 /\ conn[c].timeoutLog[i] # conn[c].pmsg)
    /\ [][\A c \in ConnIds :
            TimedOut(c) =>
                /\ conn'[c].timeoutLog
                     = Append(conn[c].timeoutLog, conn[c].qmsg)
                /\ conn'[c].input = conn[c].input
                /\ conn'[c].queue = conn[c].queue
                /\ conn'[c].writeChan = conn[c].writeChan
                /\ conn'[c].qmsg = NoMsg
                /\ conn'[c].qpc = "recv"]_vars
    /\ \A c \in ConnIds :
         (conn[c].qpc = "fallback") ~> (conn[c].qpc # "fallback")

\* C5 witness: the first event timed out in the fallback and the intake
\* task has since appended the second event to the durable queue.
C5_Witness ==
    /\ Len(conn[1].timeoutLog) = 1
    /\ conn[1].timeoutLog[1].Entry = <<1>>
    /\ <<2>> \in QueuePayloads(1)

ConnectorClosed(c) ==
    /\ conn[c].chanClosed
    /\ conn[c].queueClosed
    /\ conf.Connector.EnableProducer => conn[c].producer = "closed"

\* C6: Close invokes the backend's Close only after the Close of the
\* connector it found set has returned; it invokes Close on the backend
\* exactly when it finds the backend slot set, and returns that Close's
\* error, or nil when it finds the slot unset; no Close is invoked on a
\* connector or backend that was never stored in its slot.
C6_CloseOrder ==
    /\ [](/\ \A k \in ConnIds : conn[k].chanClosed => cTask[k] = "ok"
          /\ \A k \in ConnIds : dbClosed[k] => dTask[k] = "ok"
          /\ (closer.pc = "done" /\ closer.result # Panic) =>
                closer.result = IF closer.dbCalled THEN closer.dbErr ELSE Nil)
    /\ [][/\ (~closer.dbCalled /\ closer'.dbCalled /\ closer'.connSeen # 0)
               => ConnectorClosed(closer'.connSeen)
          /\ (closer.pc = "db" /\ closer'.pc = "done")
               => (closer'.dbCalled <=> sdb # 0)]_vars

\* C6 witness: both slots were set, Close closed the connector, then the
\* backend, and returned the backend's error.
C6_Witness ==
    /\ closer.pc = "done"
    /\ closer.connSeen # 0
    /\ ConnectorClosed(closer.connSeen)
    /\ closer.dbCalled
    /\ closer.dbErr = ErrBackend
    /\ closer.result = ErrBackend

\* C7: a Get that reached the backend returns an empty Value and no error
\* when the backend reports "not found", never returns the "not found"
\* error, and returns any other backend error unchanged with NoValue.
C7_GetNotFound ==
    (lastOp.op = "Get" /\ lastOp.dbCalled) =>
        /\ lastOp.err # ErrNotExists
        /\ lastOp.dbErr = ErrNotExists =>
             (lastOp.err = Nil /\ lastOp.v = NoValue)
        /\ lastOp.dbErr \notin {Nil, ErrNotExists} =>
             (lastOp.err = lastOp.dbErr /\ lastOp.v = NoValue)

\* C7 witness: the backend reported "not found" to a Get.
C7_Witness ==
    /\ lastOp.op = "Get"
    /\ lastOp.dbCalled
    /\ lastOp.dbErr = ErrNotExists

Kept(m) == \A n \in DOMAIN m : n \in DOMAIN m' /\ m'[n] = m[n]

\* C8: a registration under a name already present panics and changes
\* neither table, a registration under a new name succeeds, and no step
\* ever changes or removes the driver stored under a name.
C8_RegistryFirstWins ==
    [][/\ Kept(dDrivers)
       /\ Kept(cDrivers)
       /\ regCalls' # regCalls =>
            LET before == IF lastReg'.table = "db" THEN dDrivers ELSE cDrivers
            IN /\ (lastReg'.outcome = Panic)
                    <=> (lastReg'.driver.name \in DOMAIN before)
               /\ lastReg'.outcome = Panic
                    => (dDrivers' = dDrivers /\ cDrivers' = cDrivers)]_vars

\* C8 witness: a second driver named "tikv" was refused and the first one
\* is still the one registered.
C8_Witness ==
    /\ lastReg.table = "db"
    /\ lastReg.outcome = Panic
    /\ lastReg.driver = [name |-> "tikv", id |-> 2]
    /\ "tikv" \in DOMAIN dDrivers
    /\ dDrivers["tikv"].id = 1

NotAvailable(op) ==
    IF op = "Health" THEN ErrDatabaseNotExists ELSE ErrNotExists

\* The operations of `lastOp` that test the backend slot first.
GuardedOps == {"Health", "Get", "List", "BatchDelete"}

\* C9: an operation that runs while the backend slot is unset returns the
\* not-available error (Health: the backend-not-open error) without
\* touching the backend or the connector, whatever the state of the
\* connector; only a backend open that succeeded sets the slot, and a
\* failed one leaves it as it was.
C9_NoReadinessBarrier ==
    /\ [](/\ (lastOp.op \in GuardedOps /\ lastOp.dbSeen = 0) =>
                (lastOp.err = NotAvailable(lastOp.op) /\ ~lastOp.dbCalled)
          /\ (call.pc = "done" /\ call.dbSeen = 0) =>
                (call.result = ErrNotExists /\ call.dbCalls = 0
                 /\ call.sends = 0))
    /\ [][/\ (sdb = 0 /\ lastOp' # lastOp /\ lastOp'.op \in GuardedOps) =>
                /\ lastOp'.err = NotAvailable(lastOp'.op)
                /\ ~lastOp'.dbCalled
                /\ kv' = kv
          /\ (sdb = 0 /\ nCalls' # nCalls) =>
                /\ call'.pc = "done"
                /\ call'.result = ErrNotExists
                /\ kv' = kv
                /\ conn' = conn
          /\ sdb' # sdb =>
                (dTask[sdb'] = "pending" /\ dTask'[sdb'] = "ok")
          /\ \A k \in ConnIds :
                (dTask[k] = "pending" /\ dTask'[k] = "failed") => sdb' = sdb
         ]_vars

\* C9 witness: the backend open failed, the connector is open, and a Get
\* was answered with the not-available error.
C9_Witness ==
    /\ sdb = 0
    /\ dTask[1] = "failed"
    /\ sconnector # 0
    /\ lastOp.op = "Get"
    /\ lastOp.err = ErrNotExists

\* C10: a CheckAndPut whose write the backend accepted ends in success,
\* whatever the connector does.
C10_AcceptedWriteSucceeds ==
    (call.pc = "done" /\ call.accepted) => call.result = Nil

\* C11: Connector.Close closes the durable queue only when the intake holds
\* no entry any more, and the intake task never hands an entry to a durable
\* queue that Close has closed.
C11_DrainBeforeTeardown ==
    \A c \in ConnIds :
        /\ conn[c].queueClosed => conn[c].writeChan = <<>>
        /\ ~conn[c].putLate

\* Records appended to the durable queue have not yet reached the
\* producer's input.
C12_Unread(c) == Len(ViaQueue(c)) < Len(conn[c].appended)

\* C12: with remote publishing enabled and until Close closes the
\* connector, the durable-queue-to-remote task has not ended, and whenever
\* appended records have not reached the producer's input there comes a
\* moment at which every record appended so far has been handed to it.
C12_AtLeastOnce ==
    /\ [](\A c \in ConnIds :
            conn[c].ppc \in {"exit", Panic} => conn[c].chanClosed)
    /\ \A c \in ConnIds :
         C12_Unread(c) ~> (~C12_Unread(c) \/ conn[c].chanClosed)

\* C12 witness: the connector is not closed, the producer has reported a
\* delivery error and has been down during an append, and both records
\* appended have reached its input.
C12_Witness ==
    /\ ~conn[1].chanClosed
    /\ closer.pc = "idle"
    /\ conn[1].emitted >= 1
    /\ conn[1].errors = 0
    /\ conn[1].downAppends >= 1
    /\ Len(conn[1].appended) = 2
    /\ Len(ViaQueue(1)) = 2

\* C13: the connector driver's Open and the backend driver's Open have each
\* run at most once for the Store; every successful run writes its slot,
\* so each slot is written at most once.
C13_OpenedAtMostOnce ==
    /\ Cardinality({k \in ConnIds : cTask[k] \in {"ok", "failed"}}) <= 1
    /\ Cardinality({k \in ConnIds : dTask[k] \in {"ok", "failed"}}) <= 1

\* "k1" / "v1"
K1V1 == [Key |-> <<107, 49>>, Entry |-> <<118, 49>>]

\* C14: the record putQueue builds is the key's length as four big-endian
\* bytes, then the key, then the entry ("k1", "v1" gives 00 00 00 02 'k' '1'
\* 'v' '1'), and what runProducer decodes from it is the original key and
\* the original entry, empty ones included.
C14_RoundTrip ==
    /\ codec.pc \in {"queued", "read"} =>
          /\ codec.body = <<0, 0, 0, Len(codec.msg.Key)>> \o codec.msg.Key
                              \o codec.msg.Entry
          /\ codec.msg = K1V1 =>
                codec.body = <<0, 0, 0, 2, 107, 49, 118, 49>>
    /\ codec.pc = "read" =>
          /\ codec.out.Key = codec.msg.Key
          /\ codec.out.Value = codec.msg.Entry

\* C14 witness: an event with an empty key and a non-empty entry has been
\* encoded and decoded.
C14_Witness ==
    /\ codec.pc = "read"
    /\ codec.msg.Key = <<>>
    /\ codec.msg.Entry = <<118, 49>>

\* C15: an operation that ran while the backend slot was unset ended with
\* an error value or as a no-op, not in a panic, and invoked no method on
\* the unset handle.
C15_DefinedWhenUnset ==
    /\ (lastOp.op # "none" /\ lastOp.dbSeen = 0) =>
          (lastOp.err # Panic /\ ~lastOp.dbCalled)
    /\ (call.pc = "done" /\ call.dbSeen = 0) =>
          (call.result = ErrNotExists /\ call.dbCalls = 0)
    /\ (closer.pc = "done" /\ closer.dbSeen = 0) =>
          (closer.result # Panic /\ ~closer.dbCalled)

\* The call in `call` met one of the guards before the backend: backend
\* slot unset, empty entry, or an entry that does not decode.
C16_Guarded ==
    \/ call.dbSeen = 0
    \/ Len(call.entry) = 0
    \/ Unmarshal(call.entry).err # Nil

\* C16: a CheckAndPut that the backend did not accept invokes no Send and
\* returns an error; a call that returns an error was not accepted, and the
\* step that ends it leaves every connector as it was; a call stopped by a
\* guard (backend unset, empty entry, undecodable entry) returns an error
\* without invoking the backend's CheckAndPut or changing its contents.
C16_FailedWriteNotReplicated ==
    /\ [](call.pc # "idle" =>
            /\ ~call.accepted => (call.sends = 0 /\ call.sentTo = 0)
            /\ (call.pc = "done" /\ ~call.accepted) =>
                  call.result \notin {Nil, Panic}
            /\ (call.pc = "done" /\ call.result \notin {Nil, Panic}) =>
                  (~call.accepted /\ call.sends = 0)
            /\ C16_Guarded =>
                  (call.pc = "done" /\ call.dbCalls = 0 /\ ~call.accepted))
    /\ [][(nCalls' # nCalls /\ ~call'.accepted) =>
            /\ conn' = conn
            /\ call'.pc = "done"
            /\ C16_Guarded' => kv' = kv]_vars

\* C16 witness: with a connector open, the backend rejected a
\* compare-and-put whose entry decodes, and the call returned its error.
C16_Witness ==
    /\ call.pc = "done"
    /\ call.sentTo = 0
    /\ sconnector # 0
    /\ call.dbSeen # 0
    /\ call.dbCalls = 1
    /\ Unmarshal(call.entry).err = Nil
    /\ call.result = ErrBackend

Dropped(c) == Len(conn'[c].dropLog) # Len(conn[c].dropLog)

\* C17: with remote publishing disabled a connector has no producer, no
\* durable-queue-to-remote task and an empty producer input, the intake
\* task never enters its fallback send, and Close never reaches the
\* producer; the step that drops an event whose append failed takes it off
\* the intake, appends nothing and leaves the intake task at its receive.
C17_DisabledNothingPublished ==
    /\ [](~conf.Connector.EnableProducer =>
            /\ \A c \in ConnIds :
                  /\ conn[c].producer = "none"
                  /\ conn[c].ppc = "off"
                  /\ conn[c].input = <<>>
                  /\ conn[c].qpc \in {"off", "recv", "exit"}
                  /\ conn[c].qmsg = NoMsg
                  /\ conn[c].timeoutLog = <<>>
            /\ closer.pc # "producer")
    /\ [][\A c \in ConnIds :
            (~conf.Connector.EnableProducer /\ Dropped(c)) =>
                /\ conn[c].writeChan # <<>>
                /\ conn'[c].writeChan = Tail(conn[c].writeChan)
                /\ conn'[c].dropLog
                     = Append(conn[c].dropLog, Head(conn[c].writeChan).Key)
                /\ conn'[c].queue = conn[c].queue
                /\ conn'[c].qpc = "recv"]_vars

\* C17 witness: remote publishing is disabled, one event was dropped at a
\* failed append, another was appended, and Close has closed the connector.
C17_Witness ==
    /\ ~conf.Connector.EnableProducer
    /\ Len(conn[1].dropLog) = 1
    /\ Len(conn[1].appended) = 1
    /\ closer.pc = "done"
    /\ closer.connSeen = 1
    /\ conn[1].queueClosed

\* The durable-queue-to-remote task has read a damaged record.
C18_ReadCorrupt(c) ==
    \E i \in 1..conn[c].qread : ~WellFormed(conn[c].queue[i])

\* C18: after reading a damaged record the durable-queue-to-remote task is
\* still running (at its select or sending a later record), as long as
\* Close has not closed the producer.
C18_CorruptRecordIsolated ==
    \A c \in ConnIds :
        (C18_ReadCorrupt(c) /\ conn[c].producer = "open") =>
            conn[c].ppc \in {"select", "send"}

\* C19: no Send, no Close and neither background task has used a resource
\* of the connector after Close closed it: no Send and no Close panicked on
\* the closed intake, the intake task appended to no closed durable queue,
\* and neither task panicked sending on a closed producer's input.
C19_NoUseAfterClose ==
    /\ sender.result # Panic
    /\ call.result # Panic
    /\ closer.result # Panic
    /\ \A c \in ConnIds :
          /\ ~conn[c].putLate
          /\ conn[c].qpc # Panic
          /\ conn[c].producer = "closed" => conn[c].ppc # Panic

\* C20: a connector whose Driver.Open returned an error has no durable
\* queue and no intake task.
C20_FailedOpenLeavesNothing ==
    \A k \in ConnIds :
        cTask[k] = "failed" => (~conn[k].made /\ conn[k].qpc = "off")

====
